---- MODULE Spec2Model ----
(***************************************************************************)
(* The buffer pool manager of bunhance (src/src/core/buffer.ts and         *)
(* src/src/core/buffer-ops.ts): one BufferManager, the buffers its callers *)
(* hold, the storage behind them, the clock and the cleanup timer.         *)
(***************************************************************************)
EXTENDS Integers, Sequences, FiniteSets, TLC

(***************************************************************************)
(* The configuration the manager is created with, scaled down, and the     *)
(* bounds of the callers' behaviour.                                       *)
(***************************************************************************)
InitialBufferSize == 1
MaxBufferSize == 2
MaxPoolSize == 1
CleanupInterval == 1
\* widths, heights and coordinates the callers use
MaxDim == 2
\* Date.now() runs from 0 to MaxTime
MaxTime == 2
\* buffers the callers hold at the same time
MaxBuffers == 2
\* byte values written are 0..MaxByte
MaxByte == 1
\* length of the byte sequences passed to writeToBuffer
MaxValueLen == 2
\* initialBufferSize and maxBufferSize of a manager created with one size class
WideBufferSize == 4
\* the greatest length an Array can have, scaled down: above every size class
ArrayLimit == 5
\* times a caller passes the same buffer to releaseBuffer
MaxReleases == 2
\* size classes a list under construction can take before memory runs out
MaxClasses == 3

VARIABLES
    config,             \* manager.config: the configuration the manager was created with
    pool,               \* manager.pool: per kind, the size classes and the overflow
    active,             \* manager.active: the keys of the registry (buffer handles)
    buffers,            \* the UnifiedBuffer objects the callers hold, by handle
    heap,               \* the storage objects: the bytes of a Uint8Array or the rows of a Cell[][]
    now,                \* Date.now()
    cleanupIntervalId,  \* the closure variable holding the setInterval handle
    timerDue,           \* when the runtime runs the interval callback next
    disposed,           \* history: dispose() has been called
    staleWrite,         \* history: a caller wrote to a buffer after releasing it
    doubleRelease,      \* history: a caller released a buffer it had released before
    lastOp              \* the last call: its name, the buffer it returned or took, its outcome

vars == <<config, pool, active, buffers, heap, now, cleanupIntervalId, timerDue,
          disposed, staleWrite, doubleRelease, lastOp>>

Kinds == {"raw", "cell"}
Handles == 1..MaxBuffers
NoBuffer == [type |-> "none"]
\* storage identities: enough for every buffer held and every item pooled
Ids == 1..(MaxBuffers + 2 * (MaxPoolSize + (MaxPoolSize + 1) \div 2))
Bytes == 0..MaxByte

\* the configuration of a manager created without a configuration of its own
DEFAULT_CONFIG ==
    [maxBufferSize |-> MaxBufferSize,
     cleanupInterval |-> CleanupInterval,
     initialBufferSize |-> InitialBufferSize,
     maxPoolSize |-> MaxPoolSize,
     poolStrategy |-> "lru"]

(***************************************************************************)
(* Cells.  A Cell is {char, fg?, bg?}; an absent colour is "none".  A hole *)
(* is the undefined entry that an assignment past the end of a row leaves. *)
(***************************************************************************)
BlankCell == [char |-> " ", fg |-> "none", bg |-> "none"]
HoleCell == [char |-> "undefined", fg |-> "none", bg |-> "none"]
CellValues ==
    {BlankCell, [char |-> "X", fg |-> "red", bg |-> "none"]}

(***************************************************************************)
(* Sequence helpers standing for the Array methods the code uses.          *)
(***************************************************************************)
Last(s) == s[Len(s)]

\* Array.prototype.pop: the array without its last element
PopKeepsItem(s) == s
Pop(s) == SubSeq(s, 1, Len(s) - 1)

\* array.filter(item => item !== removed), the removed one being at index i
RemoveAtKeeps(s, i) == s
RemoveAt(s, i) == SubSeq(s, 1, i - 1) \o SubSeq(s, i + 1, Len(s))

RECURSIVE SumLen(_)
SumLen(classes) ==
    IF classes = <<>> THEN 0
    ELSE Len(classes[1].buffers) + SumLen(Tail(classes))

\* new Uint8Array(n), and typedArray.fill(0)
Zeros(n) == [i \in 1..n |-> 0]
\* rows.forEach(row => row.fill({ char: ' ' }))
BlankFill(grid) == [r \in 1..Len(grid) |-> [c \in 1..Len(grid[r]) |-> BlankCell]]

\* a storage object is a Uint8Array or a Cell[][]
RawData(bytes) == [bytes |-> bytes, grid |-> <<>>]
CellData(grid) == [bytes |-> <<>>, grid |-> grid]
NoData == [bytes |-> <<>>, grid |-> <<>>]

(***************************************************************************)
(* createSizeClasses: initialBufferSize, doubled while <= maxBufferSize.   *)
(***************************************************************************)
RECURSIVE ClassSizesFrom(_)
ClassSizesFrom(size) ==
    IF size <= config.maxBufferSize
    THEN <<size>> \o ClassSizesFrom(size * 2)
    ELSE <<>>

createSizeClassesSingle == <<[size |-> config.initialBufferSize, buffers |-> <<>>]>>
createSizeClasses ==
    LET sizes == ClassSizesFrom(config.initialBufferSize)
    IN  [i \in 1..Len(sizes) |-> [size |-> sizes[i], buffers |-> <<>>]]

\* classes.find(c => c.size >= required), as an index; 0 stands for undefined
findSizeClassLargest(classes, required) == Len(classes)
findSizeClass(classes, required) ==
    LET fits == {i \in 1..Len(classes) : classes[i].size >= required}
    IN  IF fits = {} THEN 0 ELSE CHOOSE i \in fits : \A j \in fits : i <= j

getOptimalBufferSizeMax(requested) == config.maxBufferSize
getOptimalBufferSize(requested) ==
    LET i == findSizeClass(pool.raw.sizeClasses, requested)
    IN  IF i # 0 THEN pool.raw.sizeClasses[i].size ELSE config.maxBufferSize

(***************************************************************************)
(* overflow.filter(item => item.size >= size).sort((a, b) => a.size -      *)
(* b.size)[0], as an index of overflow; the sort is stable, so among the   *)
(* items of the smallest sufficient size the first one is taken.           *)
(***************************************************************************)
OverflowAnySize(overflow, size) ==
    IF overflow = <<>> THEN 0 ELSE 1
OverflowOptimal(overflow, size) ==
    LET fits == {i \in 1..Len(overflow) : overflow[i].size >= size}
    IN  IF fits = {} THEN 0
        ELSE CHOOSE i \in fits :
                \A j \in fits :
                    \/ overflow[i].size < overflow[j].size
                    \/ overflow[i].size = overflow[j].size /\ i <= j

(***************************************************************************)
(* Validation.                                                             *)
(***************************************************************************)
\* validateBufferDimensions: TRUE when it does not throw
validateBufferDimensionsLax(width, height) == TRUE
validateBufferDimensions(width, height) == ~(width <= 0 \/ height <= 0)

\* validateBufferAccess: TRUE when it does not throw
validateBufferAccess(buffer, x, y) ==
    ~(x < 0 \/ y < 0 \/ x >= buffer.width \/ y >= buffer.height)

(***************************************************************************)
(* Buffers.  released counts the releaseBuffer calls a caller made with    *)
(* the buffer (history; the code keeps no such field).                     *)
(***************************************************************************)
createRawBufferUnstamped(data, width, height) ==
    [type |-> "raw", width |-> width, height |-> height, data |-> data,
     isPooled |-> TRUE, lastUsed |-> 0, released |-> 0]
createRawBuffer(data, width, height) ==
    [type |-> "raw", width |-> width, height |-> height, data |-> data,
     isPooled |-> TRUE, lastUsed |-> now, released |-> 0]

\* the grid createCellBuffer builds: height rows of width blank cells
NewGrid(width, height) == [r \in 1..height |-> [c \in 1..width |-> BlankCell]]

\* createCellBuffer, the grid being stored at identity data
createCellBuffer(data, width, height) ==
    [type |-> "cell", width |-> width, height |-> height, data |-> data,
     isPooled |-> TRUE, lastUsed |-> now, released |-> 0]

(***************************************************************************)
(* The storage that is reachable: from a buffer a caller holds or from an  *)
(* item of the pool.  Storage nothing refers to is the garbage collector's.*)
(***************************************************************************)
OverflowIds(p, kind) == {p[kind].overflow[j].buffer : j \in 1..Len(p[kind].overflow)}
ClassIds(p, kind) ==
    UNION {{p[kind].sizeClasses[i].buffers[j].buffer :
               j \in 1..Len(p[kind].sizeClasses[i].buffers)} :
           i \in 1..Len(p[kind].sizeClasses)}
PooledIds(p, kind) == ClassIds(p, kind) \cup OverflowIds(p, kind)
HeldIds(b) == {b[h].data : h \in {k \in Handles : b[k] # NoBuffer}}
Reachable(p, b) == PooledIds(p, "raw") \cup PooledIds(p, "cell") \cup HeldIds(b)

\* the identity of the next allocation
NewId(p, b) == CHOOSE id \in Ids \ Reachable(p, b) :
                  \A other \in Ids \ Reachable(p, b) : id <= other

\* Storage identities are opaque to the program: a state is kept with its
\* storage numbered in the order in which the buffers held and then the pool
\* refer to it, and storage nothing refers to any more is collected.
ItemRefs(items) == [j \in 1..Len(items) |-> items[j].buffer]

RECURSIVE ClassRefs(_)
ClassRefs(classes) ==
    IF classes = <<>> THEN <<>>
    ELSE ItemRefs(classes[1].buffers) \o ClassRefs(Tail(classes))

RefSeq(p, b) ==
    LET held == SelectSeq([h \in Handles |-> h], LAMBDA h : b[h] # NoBuffer)
    IN  [j \in 1..Len(held) |-> b[held[j]].data]
        \o ClassRefs(p["raw"].sizeClasses) \o ItemRefs(p["raw"].overflow)
        \o ClassRefs(p["cell"].sizeClasses) \o ItemRefs(p["cell"].overflow)

RECURSIVE Dedupe(_, _)
Dedupe(s, seen) ==
    IF s = <<>> THEN <<>>
    ELSE IF s[1] \in seen THEN Dedupe(Tail(s), seen)
    ELSE <<s[1]>> \o Dedupe(Tail(s), seen \cup {s[1]})

Renumbering(order) ==
    [id \in Ids |-> IF \E n \in 1..Len(order) : order[n] = id
                    THEN CHOOSE n \in 1..Len(order) : order[n] = id
                    ELSE 0]

RenItems(ren, items) == [j \in 1..Len(items) |-> [items[j] EXCEPT !.buffer = ren[@]]]

Renumbered(order, ren, p, b, h) ==
    /\ pool' = [kind \in Kinds |->
                  [sizeClasses |->
                      [i \in 1..Len(p[kind].sizeClasses) |->
                          [p[kind].sizeClasses[i] EXCEPT !.buffers = RenItems(ren, @)]],
                   overflow |-> RenItems(ren, p[kind].overflow)]]
    /\ buffers' = [hd \in Handles |->
                     IF b[hd] = NoBuffer THEN NoBuffer ELSE [b[hd] EXCEPT !.data = ren[@]]]
    /\ heap' = [n \in Ids |-> IF n <= Len(order) THEN h[order[n]] ELSE NoData]

StoreIn(order, p, b, h) == Renumbered(order, Renumbering(order), p, b, h)

\* the state a call leaves: the pool, the buffers held and the heap it computed
Store(p, b, h) == StoreIn(Dedupe(RefSeq(p, b), {}), p, b, h)

(***************************************************************************)
(* The state after createBufferManager(config).                            *)
(***************************************************************************)
Outcome(op, buf, result) ==
    [op |-> op, args |-> <<>>, buf |-> buf, result |-> result, message |-> ""]

\* an error thrown: its class and its message
Thrown(op, class, message) == [Outcome(op, 0, class) EXCEPT !.message = message]

\* createBufferManager(userConfig)
createBufferManager(userConfig) ==
    /\ config = userConfig
    /\ pool = [kind \in Kinds |-> [sizeClasses |-> createSizeClasses, overflow |-> <<>>]]
    /\ active = {}
    /\ buffers = [h \in Handles |-> NoBuffer]
    /\ heap = [id \in Ids |-> NoData]
    /\ now = 0
    /\ cleanupIntervalId = "set"
    /\ timerDue = config.cleanupInterval
    /\ disposed = FALSE
    /\ staleWrite = FALSE
    /\ doubleRelease = FALSE
    /\ lastOp = Outcome("create", 0, "ok")

Init == createBufferManager(DEFAULT_CONFIG)

\* a manager with the single size class WideBufferSize
WideConfig ==
    [DEFAULT_CONFIG EXCEPT !.initialBufferSize = WideBufferSize,
                           !.maxBufferSize = WideBufferSize]

InitWide == createBufferManager(WideConfig)

(***************************************************************************)
(* acquireBuffer(manager, type, width, height).                            *)
(***************************************************************************)
\* where acquireBuffer takes the storage from: the size class found, if it
\* holds an item; else the overflow item chosen; else a fresh allocation
acquireFreshAlways(type, size) == [from |-> "fresh", index |-> 0]
acquireSource(type, size) ==
    LET targetPool == pool[type]
        ci == findSizeClass(targetPool.sizeClasses, size)
        oi == OverflowOptimal(targetPool.overflow, size)
    IN  IF ci # 0 /\ Len(targetPool.sizeClasses[ci].buffers) > 0
        THEN [from |-> "class", index |-> ci]
        ELSE IF oi # 0
        THEN [from |-> "overflow", index |-> oi]
        ELSE [from |-> "fresh", index |-> 0]

FreeHandles == {h \in Handles : buffers[h] = NoBuffer}

Acquire(type, width, height) ==
    /\ FreeHandles # {}
    /\ IF ~validateBufferDimensions(width, height)
       THEN /\ lastOp' = [Thrown("acquire", "BufferValidationError",
                                   "Buffer dimensions must be positive")
                            EXCEPT !.args = <<type, width, height>>]
            /\ UNCHANGED <<pool, active, buffers, heap, staleWrite, doubleRelease>>
       ELSE LET b == CHOOSE h \in FreeHandles : \A k \in FreeHandles : h <= k
                size == width * height
                src == acquireSource(type, size)
                targetPool == pool[type]
                item == IF src.from = "class"
                        THEN Last(targetPool.sizeClasses[src.index].buffers)
                        ELSE targetPool.overflow[src.index]
                pool1 == IF src.from = "class"
                         THEN [pool EXCEPT ![type].sizeClasses[src.index].buffers = Pop(@)]
                         ELSE IF src.from = "overflow"
                         THEN [pool EXCEPT ![type].overflow = RemoveAt(@, src.index)]
                         ELSE pool
                \* a raw buffer wraps the pooled Uint8Array itself; a cell buffer
                \* gets a copy of the pooled grid (item.buffer.map(row => [...row]))
                data == IF type = "raw" /\ src.from # "fresh"
                        THEN item.buffer
                        ELSE NewId(pool1, buffers)
                content == IF src.from = "fresh"
                           THEN IF type = "raw"
                                THEN RawData(Zeros(getOptimalBufferSize(size)))
                                ELSE CellData(NewGrid(width, height))
                           ELSE heap[item.buffer]
                buffer == IF type = "raw"
                          THEN createRawBuffer(data, width, height)
                          ELSE createCellBuffer(data, width, height)
                buffers1 == [buffers EXCEPT ![b] = buffer]
                \* Array.from({ length }) of createCellBuffer throws a RangeError,
                \* which the catch wraps; a pooled item is taken out before that
                tooLong == type = "cell" /\ (width > ArrayLimit \/ height > ArrayLimit)
            IN  IF tooLong
                THEN /\ IF src.from = "fresh"
                        THEN UNCHANGED <<pool, buffers, heap>>
                        ELSE Store(pool1, buffers, heap)
                     /\ lastOp' = [Thrown("acquire", "BufferError", "Failed to acquire buffer")
                                     EXCEPT !.args = <<type, width, height>>]
                     /\ UNCHANGED <<active, staleWrite, doubleRelease>>
                ELSE /\ Store(pool1, buffers1, [heap EXCEPT ![data] = content])
                     /\ lastOp' = [Outcome("acquire", b, "ok")
                                     EXCEPT !.args = <<type, width, height>>]
                     /\ UNCHANGED <<active, staleWrite, doubleRelease>>
    /\ UNCHANGED <<config, now, cleanupIntervalId, timerDue, disposed>>

\* acquireBuffer with a width or a height that is not an integer:
\* validateBufferDimensions throws before anything else is done
AcquireNonInteger(type) ==
    /\ lastOp' = [Thrown("acquire", "BufferValidationError",
                          "Buffer dimensions must be integers")
                   EXCEPT !.args = <<type, 0, 0>>]
    /\ UNCHANGED <<config, pool, active, buffers, heap, now, cleanupIntervalId, timerDue,
                   disposed, staleWrite, doubleRelease>>

(***************************************************************************)
(* releaseBuffer(manager, buffer).                                         *)
(***************************************************************************)
\* where releaseBuffer puts the payload
releaseToClassAlways(type, size) ==
    LET ci == findSizeClass(pool[type].sizeClasses, size)
    IN  IF ci # 0 THEN [to |-> "class", index |-> ci] ELSE [to |-> "overflow", index |-> 0]
releaseDestination(type, size) ==
    LET targetPool == pool[type]
        ci == findSizeClass(targetPool.sizeClasses, size)
    IN  IF ci # 0 /\ SumLen(targetPool.sizeClasses) < config.maxPoolSize
        THEN [to |-> "class", index |-> ci]
        ELSE IF 2 * Len(targetPool.overflow) < config.maxPoolSize
        THEN [to |-> "overflow", index |-> 0]
        ELSE [to |-> "dropped", index |-> 0]

\* buffer.data.fill(0) / buffer.data.forEach(row => row.fill({ char: ' ' }))
ClearedAsBytes(type, content) == RawData(Zeros(Len(content.bytes)))
Cleared(type, content) ==
    IF type = "raw" THEN RawData(Zeros(Len(content.bytes))) ELSE CellData(BlankFill(content.grid))

\* if (!buffer.metadata.isPooled) return
releaseSkipsNever(buffer) == FALSE
releaseSkips(buffer) == ~buffer.isPooled

Release(b) ==
    /\ buffers[b] # NoBuffer
    /\ buffers[b].released < MaxReleases
    /\ LET buffer == buffers[b]
           size == buffer.width * buffer.height
           dest == releaseDestination(buffer.type, size)
           heap1 == [heap EXCEPT ![buffer.data] = Cleared(buffer.type, @)]
           \* the raw item holds buffer.data itself, the cell item a copy of the grid
           itemId == IF buffer.type = "raw" THEN buffer.data ELSE NewId(pool, buffers)
           item == [buffer |-> itemId, size |-> size, lastUsed |-> now]
           pool1 == IF dest.to = "class"
                    THEN [pool EXCEPT ![buffer.type].sizeClasses[dest.index].buffers =
                                          Append(@, item)]
                    ELSE IF dest.to = "overflow"
                    THEN [pool EXCEPT ![buffer.type].overflow = Append(@, item)]
                    ELSE pool
           heap2 == IF dest.to # "dropped"
                    THEN [heap1 EXCEPT ![itemId] = heap1[buffer.data]]
                    ELSE heap1
           \* after its last release the caller drops the buffer
           buffers1 == IF buffer.released + 1 = MaxReleases
                       THEN [buffers EXCEPT ![b] = NoBuffer]
                       ELSE [buffers EXCEPT ![b].released = @ + 1]
       IN  IF releaseSkips(buffer)
           THEN UNCHANGED <<pool, active, buffers, heap>>
           ELSE /\ Store(pool1, buffers1, heap2)
                /\ active' = active \ {b}
    /\ doubleRelease' = (doubleRelease \/ buffers[b].released > 0)
    /\ lastOp' = Outcome("release", b, "ok")
    /\ UNCHANGED <<config, now, cleanupIntervalId, timerDue, disposed, staleWrite>>

\* the caller passes on a buffer it holds as one that is not pooled:
\* metadata.isPooled = false
Unpool(b) ==
    /\ buffers[b] # NoBuffer
    /\ buffers[b].isPooled
    /\ buffers' = [buffers EXCEPT ![b].isPooled = FALSE]
    /\ lastOp' = Outcome("unpool", b, "ok")
    /\ UNCHANGED <<config, pool, active, heap, now, cleanupIntervalId, timerDue, disposed,
                   staleWrite, doubleRelease>>

\* the caller drops its reference to a buffer it has released
Forget(b) ==
    /\ buffers[b] # NoBuffer
    /\ buffers[b].released > 0
    /\ Store(pool, [buffers EXCEPT ![b] = NoBuffer], heap)
    /\ UNCHANGED active
    /\ lastOp' = Outcome("forget", 0, "ok")
    /\ UNCHANGED <<config, now, cleanupIntervalId, timerDue, disposed, staleWrite, doubleRelease>>

(***************************************************************************)
(* writeToBuffer(buffer, x, y, data) and readFromBuffer(buffer, x, y).     *)
(* A value is a Cell or a Uint8Array.                                      *)
(***************************************************************************)
ByteSeqs == UNION {[1..n -> Bytes] : n \in 0..MaxValueLen}
Values ==
    {[kind |-> "cell", cell |-> c, bytes |-> <<>>] : c \in CellValues}
    \cup {[kind |-> "bytes", cell |-> BlankCell, bytes |-> bs] : bs \in ByteSeqs}

isCellDataAlways(data) == TRUE
isCellData(data) == data.kind = "cell"
isRawData(data) == data.kind = "bytes"

\* row[x] = cell, x counted from 0: an index past the end lengthens the row
SetCell(row, x, cell) ==
    IF x + 1 <= Len(row)
    THEN [row EXCEPT ![x + 1] = cell]
    ELSE row \o [i \in 1..(x - Len(row)) |-> HoleCell] \o <<cell>>

\* typedArray.set(source, offset), offset counted from 0
SetBytes(target, source, offset) ==
    [i \in 1..Len(target) |->
        IF i > offset /\ i <= offset + Len(source) THEN source[i - offset] ELSE target[i]]

\* the offset writeToBuffer passes to set()
WriteOffset(buffer, x, y, data) == (y * buffer.width + x) * Len(data.bytes)

\* the message of the error writeToBuffer throws, "" if it throws none
WriteMessage(b, x, y, data) ==
    LET buffer == buffers[b]
        content == heap[buffer.data]
        offset == WriteOffset(buffer, x, y, data)
    IN  IF ~validateBufferAccess(buffer, x, y) THEN "Buffer access out of bounds"
        ELSE IF buffer.type = "cell"
        THEN IF ~isCellData(data) THEN "Invalid cell data format"
             \* buffer.data[y] is undefined: a TypeError, wrapped
             ELSE IF y + 1 > Len(content.grid) THEN "Buffer write failed"
             ELSE ""
        ELSE IF ~isRawData(data) THEN "Invalid raw data format"
             \* set() past the end: a RangeError, wrapped
             ELSE IF offset + Len(data.bytes) > Len(content.bytes) THEN "Buffer write failed"
             ELSE ""

\* the class of that error
WriteResult(b, x, y, data) ==
    LET message == WriteMessage(b, x, y, data)
    IN  IF message = "" THEN "ok"
        ELSE IF message = "Buffer access out of bounds" THEN "BufferValidationError"
        ELSE "BufferError"

Write(b, x, y, data) ==
    /\ buffers[b] # NoBuffer
    /\ LET buffer == buffers[b]
           content == heap[buffer.data]
           offset == WriteOffset(buffer, x, y, data)
           result == WriteResult(b, x, y, data)
           written ==
               IF buffer.type = "cell"
               THEN [content EXCEPT !.grid[y + 1] = SetCell(@, x, data.cell)]
               ELSE [content EXCEPT !.bytes = SetBytes(@, data.bytes, offset)]
       IN  /\ lastOp' = [Thrown("write", result, WriteMessage(b, x, y, data)) EXCEPT !.buf = b]
           /\ IF result = "ok"
              THEN /\ heap' = [heap EXCEPT ![buffer.data] = written]
                   /\ buffers' = [buffers EXCEPT ![b].lastUsed = now]
                   /\ staleWrite' = (staleWrite \/ buffer.released > 0)
              ELSE UNCHANGED <<heap, buffers, staleWrite>>
    /\ UNCHANGED <<config, pool, active, now, cleanupIntervalId, timerDue, disposed, doubleRelease>>

\* what a successful readFromBuffer returns, as a sequence: the copied cell, or
\* the bytes of the one-byte subarray
ReadValue(b, x, y) ==
    LET buffer == buffers[b]
        content == heap[buffer.data]
        offset == y * buffer.width + x
    IN  IF buffer.type = "cell"
        \* { ...buffer.data[y][x] }: of an absent entry, the empty object
        THEN IF x + 1 <= Len(content.grid[y + 1])
             THEN <<content.grid[y + 1][x + 1]>>
             ELSE <<HoleCell>>
        \* subarray(offset, offset + 1): empty past the end
        ELSE IF offset + 1 <= Len(content.bytes)
             THEN <<content.bytes[offset + 1]>>
             ELSE <<>>

\* how readFromBuffer ends: with a value, with null or with an error thrown
ReadResult(b, x, y) ==
    LET buffer == buffers[b]
        content == heap[buffer.data]
    IN  \* the BufferValidationError is caught: null
        IF ~validateBufferAccess(buffer, x, y) THEN "null"
        \* buffer.data[y] is undefined: a TypeError, wrapped
        ELSE IF buffer.type = "cell" /\ y + 1 > Len(content.grid) THEN "BufferError"
        ELSE "ok"

Read(b, x, y) ==
    /\ buffers[b] # NoBuffer
    /\ LET buffer == buffers[b]
           result == ReadResult(b, x, y)
       IN  IF result = "ok"
           THEN /\ lastOp' = Outcome("read", b, "ok")
                /\ buffers' = [buffers EXCEPT ![b].lastUsed = now]
           ELSE /\ lastOp' = Outcome("read", b, result)
                /\ UNCHANGED buffers
    /\ UNCHANGED <<config, pool, active, heap, now, cleanupIntervalId, timerDue, disposed,
                   staleWrite, doubleRelease>>

(***************************************************************************)
(* manager.cleanup(), manager.dispose(), the interval timer and the clock. *)
(***************************************************************************)
isExpired(lastUsed) == now - lastUsed >= config.cleanupInterval

\* sizeClass.buffers.filter(...) of cleanup: the items that are not expired
KeepFresh(items) == SelectSeq(items, LAMBDA item : ~isExpired(item.lastUsed))

\* cleanupPool of cleanup: every size class is filtered; the filtered overflow
\* is assigned to the parameter, so the pool's overflow stays as it is
cleanupPool(targetPool) ==
    [sizeClasses |->
        [i \in 1..Len(targetPool.sizeClasses) |->
            [targetPool.sizeClasses[i] EXCEPT !.buffers = KeepFresh(@)]],
     overflow |-> targetPool.overflow]

\* the storage cleanup's filter callbacks clear: that of every expired item
ExpiredIds(kind) ==
    {id \in PooledIds(pool, kind) :
        \/ \E i \in 1..Len(pool[kind].sizeClasses) :
             \E j \in 1..Len(pool[kind].sizeClasses[i].buffers) :
                LET item == pool[kind].sizeClasses[i].buffers[j]
                IN  item.buffer = id /\ isExpired(item.lastUsed)
        \/ \E j \in 1..Len(pool[kind].overflow) :
             LET item == pool[kind].overflow[j]
             IN  item.buffer = id /\ isExpired(item.lastUsed)}

\* the entries of the registry that cleanup disposes and deletes
ExpiredActive == {h \in active : isExpired(buffers[h].lastUsed)}

\* the body of cleanup(), op naming who called it
CleanupBody(op) ==
    LET pool1 == [kind \in Kinds |-> cleanupPool(pool[kind])]
        \* disposeBuffer of the expired registry entries
        buffers1 == [h \in Handles |->
                        IF h \in ExpiredActive
                        THEN [buffers[h] EXCEPT !.lastUsed = 0]
                        ELSE buffers[h]]
        cleared == ExpiredIds("raw") \cup ExpiredIds("cell")
                       \cup {buffers[h].data : h \in ExpiredActive}
        heap1 == [id \in Ids |->
                    IF id \in ExpiredIds("raw") THEN Cleared("raw", heap[id])
                    ELSE IF id \in ExpiredIds("cell") THEN Cleared("cell", heap[id])
                    ELSE IF \E h \in ExpiredActive : buffers[h].data = id
                    THEN (IF \E h \in ExpiredActive :
                                buffers[h].data = id /\ buffers[h].type = "raw"
                          THEN Cleared("raw", heap[id])
                          ELSE Cleared("cell", heap[id]))
                    ELSE heap[id]]
    IN  /\ Store(pool1, buffers1, heap1)
        /\ active' = active \ ExpiredActive
        /\ lastOp' = Outcome(op, 0, "ok")

\* a caller calls manager.cleanup()
Cleanup ==
    /\ CleanupBody("cleanup")
    /\ UNCHANGED <<config, now, cleanupIntervalId, timerDue, disposed, staleWrite, doubleRelease>>

\* the runtime runs the setInterval callback, which calls manager.cleanup()
TimerFire ==
    /\ cleanupIntervalId = "set"
    /\ now >= timerDue
    /\ CleanupBody("timer")
    /\ timerDue' = now + config.cleanupInterval
    /\ UNCHANGED <<config, now, cleanupIntervalId, disposed, staleWrite, doubleRelease>>

\* clearInterval(cleanupIntervalId); cleanupIntervalId = undefined
ClearIntervalSkipped(id) == id
ClearInterval(id) == "undefined"

\* cleanupPool of dispose: every size class is emptied; the parameter overflow
\* is assigned [], so the pool's overflow stays as it is
disposePool(targetPool) ==
    [sizeClasses |->
        [i \in 1..Len(targetPool.sizeClasses) |->
            [targetPool.sizeClasses[i] EXCEPT !.buffers = <<>>]],
     overflow |-> targetPool.overflow]

\* manager.dispose(), also run by the process's exit handler
Dispose ==
    LET pool1 == [kind \in Kinds |-> disposePool(pool[kind])]
        heap1 == [id \in Ids |->
                    IF id \in PooledIds(pool, "raw") THEN Cleared("raw", heap[id])
                    ELSE IF id \in PooledIds(pool, "cell") THEN Cleared("cell", heap[id])
                    ELSE heap[id]]
    IN  /\ cleanupIntervalId' = ClearInterval(cleanupIntervalId)
        /\ Store(pool1, buffers, heap1)
        /\ active' = {}
        /\ disposed' = TRUE
        /\ lastOp' = Outcome("dispose", 0, "ok")
        /\ UNCHANGED <<config, now, timerDue, staleWrite, doubleRelease>>

\* time passes
Tick ==
    /\ now < MaxTime
    /\ now' = now + 1
    /\ lastOp' = Outcome("tick", 0, "ok")
    /\ UNCHANGED <<config, pool, active, buffers, heap, cleanupIntervalId, timerDue, disposed,
                   staleWrite, doubleRelease>>

(***************************************************************************)
(* manager.resizePool(type, newSize) and its helper evictBuffer.           *)
(***************************************************************************)
\* the least lastUsed below bound among items, or bound if there is none
OldestTime(items, bound) ==
    LET older == {items[j].lastUsed : j \in {k \in 1..Len(items) : items[k].lastUsed < bound}}
    IN  IF older = {} THEN bound ELSE CHOOSE t \in older : \A u \in older : t <= u

RECURSIVE ClassItemsOf(_)
ClassItemsOf(classes) ==
    IF classes = <<>> THEN <<>>
    ELSE classes[1].buffers \o ClassItemsOf(Tail(classes))

\* evictBuffer(sizeClasses, overflow, required) at time t: the oldest item
\* used before t is looked for in the size classes and then in the overflow;
\* found in a size class it is filtered out of that class; found in the
\* overflow, the filtered list is assigned to the parameter overflow and the
\* pool's overflow stays as it is
evictBuffer(targetPool, t) ==
    LET classes == targetPool.sizeClasses
        inClasses == OldestTime(ClassItemsOf(classes), t)
        oldestTime == OldestTime(targetPool.overflow, inClasses)
        ci == CHOOSE i \in 1..Len(classes) :
                 /\ \E j \in 1..Len(classes[i].buffers) : classes[i].buffers[j].lastUsed = inClasses
                 /\ \A k \in 1..(i - 1) :
                       \A j \in 1..Len(classes[k].buffers) : classes[k].buffers[j].lastUsed # inClasses
        bi == CHOOSE j \in 1..Len(classes[ci].buffers) :
                 /\ classes[ci].buffers[j].lastUsed = inClasses
                 /\ \A k \in 1..(j - 1) : classes[ci].buffers[k].lastUsed # inClasses
    IN  IF oldestTime < inClasses \/ inClasses = t
        THEN targetPool
        ELSE [targetPool EXCEPT !.sizeClasses[ci].buffers = RemoveAt(@, bi)]

\* resizePool is inside its loop: while (totalBuffers > newSize) was found true
Resizing == lastOp.op = "resizePool" /\ lastOp.result = "running"

\* the call of resizePool, up to the first test of the loop condition
ResizePool(type, newSize) ==
    /\ ~Resizing
    /\ LET targetPool == pool[type]
           totalBuffers == SumLen(targetPool.sizeClasses) + Len(targetPool.overflow)
           result == IF newSize > config.maxPoolSize THEN "BufferValidationError"
                     ELSE IF totalBuffers > newSize THEN "running"
                     ELSE "ok"
       IN  lastOp' = [Outcome("resizePool", 0, result) EXCEPT !.args = <<type, newSize>>]
    /\ UNCHANGED <<config, pool, active, buffers, heap, now, cleanupIntervalId, timerDue,
                   disposed, staleWrite, doubleRelease>>

\* one pass of the loop, dt after the pass before: evictBuffer, then the test
\* of the loop condition, in which totalBuffers is the constant computed at
\* the call and newSize has not changed: the test is true again
ResizeLoop(dt) ==
    /\ Resizing
    /\ now + dt <= MaxTime
    /\ now' = now + dt
    /\ LET type == lastOp.args[1]
       IN  Store([pool EXCEPT ![type] = evictBuffer(@, now')], buffers, heap)
    /\ UNCHANGED <<config, active, cleanupIntervalId, timerDue, disposed, staleWrite,
                   doubleRelease, lastOp>>

\* a caller calls manager.getOptimalBufferSize(requested)
GetOptimalBufferSize(requested) ==
    /\ lastOp' = [Outcome("getOptimalBufferSize", 0, "ok")
                   EXCEPT !.args = <<requested, getOptimalBufferSize(requested)>>]
    /\ UNCHANGED <<config, pool, active, buffers, heap, now, cleanupIntervalId, timerDue,
                   disposed, staleWrite, doubleRelease>>

(***************************************************************************)
(* The callers.  The specifications of the same manager differ in what     *)
(* its callers do.                                                         *)
(***************************************************************************)
\* the shapes callers ask for: raw buffers of 1, 2 and 4 bytes (one per size
\* class and one beyond the largest class), cell grids of two cells each way
RawShapes == {<<1, 1>>, <<1, 2>>, <<2, 2>>}
CellShapes == {<<1, 2>>, <<2, 1>>}
Shapes(type) == IF type = "raw" THEN RawShapes ELSE CellShapes

\* callers acquire buffers of both kinds, release them (some twice) and drop them
NextPool ==
    \/ \E type \in Kinds : \E shape \in Shapes(type) : Acquire(type, shape[1], shape[2])
    \/ \E b \in Handles : Release(b)
    \/ \E b \in Handles : Forget(b)

Spec == Init /\ [][NextPool]_vars

\* callers acquire one-byte and one-cell buffers and release each once, while
\* time passes, cleanup() is called, the timer runs and the manager is disposed
NextLifecycle ==
    \/ \E type \in Kinds : Acquire(type, 1, 1)
    \/ \E b \in Handles : buffers[b] # NoBuffer /\ buffers[b].released = 0 /\ Release(b)
    \/ \E b \in Handles : Forget(b)
    \/ Cleanup
    \/ TimerFire
    \/ Dispose
    \/ Tick

SpecLifecycle == Init /\ [][NextLifecycle]_vars

\* callers acquire one-byte and one-cell buffers, write to them and read them at
\* the first row, in and out of range, release them (some twice) and drop them
NextData ==
    \/ \E type \in Kinds : Acquire(type, 1, 1)
    \/ \E b \in Handles : Release(b)
    \/ \E b \in Handles : Forget(b)
    \/ \E b \in Handles, x \in 0..(MaxDim - 1), data \in Values : Write(b, x, 0, data)
    \/ \E b \in Handles, x \in 0..(MaxDim - 1) : Read(b, x, 0)

SpecData == Init /\ [][NextData]_vars

\* callers acquire one-byte and one-cell buffers, release each once and drop
\* them, while time passes, and call resizePool; nothing else runs while
\* resizePool is in its loop
NextResize ==
    \/ ~Resizing /\ \E type \in Kinds : Acquire(type, 1, 1)
    \/ ~Resizing /\ \E b \in Handles :
          buffers[b] # NoBuffer /\ buffers[b].released = 0 /\ Release(b)
    \/ ~Resizing /\ \E b \in Handles : Forget(b)
    \/ ~Resizing /\ Tick
    \/ \E type \in Kinds, newSize \in 0..(MaxPoolSize + 1) : ResizePool(type, newSize)
    \/ \E dt \in 0..1 : ResizeLoop(dt)

SpecResize == Init /\ [][NextResize]_vars

\* the dimensions callers pass to acquireBuffer of a manager with the one size
\* class WideBufferSize: those of a four-byte raw buffer or of an upright and a
\* flat cell buffer, dimensions that are not positive, and a cell buffer
\* higher than an Array can be long
AccessShapes(type) ==
    (IF type = "raw" THEN {<<2, 2>>} ELSE {<<1, 2>>, <<2, 1>>, <<1, ArrayLimit + 1>>})
    \cup {<<0, 1>>, <<1, -1>>}

\* the coordinates callers pass: in range and one past it on every side
Coords == (-1)..MaxDim

\* the buffer a caller has acquired and not released
InUse(b) == buffers[b] # NoBuffer /\ buffers[b].released = 0

\* callers of that manager use one buffer at a time: they acquire it with
\* dimensions of every sort, write values of every shape to it and read it at
\* coordinates of every sort, release it once and drop it
NextAccess ==
    \/ /\ \A b \in Handles : ~InUse(b)
       /\ \E type \in Kinds : \E shape \in AccessShapes(type) :
             Acquire(type, shape[1], shape[2])
    \/ \E type \in Kinds : AcquireNonInteger(type)
    \/ \E b \in Handles : InUse(b) /\ Release(b)
    \/ \E b \in Handles : Forget(b)
    \/ \E b \in Handles, x \in Coords, y \in Coords, data \in Values :
          InUse(b) /\ Write(b, x, y, data)
    \/ \E b \in Handles, x \in Coords, y \in Coords : InUse(b) /\ Read(b, x, y)

SpecAccess == InitWide /\ [][NextAccess]_vars

\* callers use one one-byte or one-cell buffer at a time while time passes:
\* they acquire it, write to it and read it inside and outside it, release it
\* once, some after marking it as not pooled, and drop it
NextStamp ==
    \/ /\ \A b \in Handles : ~InUse(b)
       /\ \E type \in Kinds : Acquire(type, 1, 1)
    \/ \E b \in Handles : InUse(b) /\ Release(b)
    \/ \E b \in Handles : Forget(b)
    \/ \E b \in Handles, x \in 0..(MaxDim - 1), data \in Values :
          InUse(b) /\ Write(b, x, 0, data)
    \/ \E b \in Handles, x \in 0..(MaxDim - 1) : InUse(b) /\ Read(b, x, 0)
    \/ \E b \in Handles : InUse(b) /\ Unpool(b)
    \/ Tick

SpecStamp == Init /\ [][NextStamp]_vars

\* a manager created with either configuration
InitEither == createBufferManager(DEFAULT_CONFIG) \/ createBufferManager(WideConfig)

\* callers of either manager acquire raw buffers of every shape, release each
\* once and drop them, and ask for the optimal size of requests of every size
NextQuery ==
    \/ \E shape \in RawShapes : Acquire("raw", shape[1], shape[2])
    \/ \E b \in Handles : InUse(b) /\ Release(b)
    \/ \E b \in Handles : Forget(b)
    \/ \E requested \in 1..(MaxDim * MaxDim) : GetOptimalBufferSize(requested)

SpecQuery == InitEither /\ [][NextQuery]_vars

\* callers of either manager use one one-byte or one-cell buffer at a time,
\* release it once and drop it, while time passes; they call cleanup(),
\* resizePool() and dispose(); nothing else runs while resizePool is in its loop
NextClasses ==
    \/ /\ ~Resizing
       /\ \A b \in Handles : ~InUse(b)
       /\ \E type \in Kinds : Acquire(type, 1, 1)
    \/ ~Resizing /\ \E b \in Handles : InUse(b) /\ Release(b)
    \/ ~Resizing /\ \E b \in Handles : Forget(b)
    \/ ~Resizing /\ Cleanup
    \/ ~Resizing /\ Dispose
    \/ ~Resizing /\ Tick
    \/ \E type \in Kinds, newSize \in 0..(MaxPoolSize + 1) : ResizePool(type, newSize)
    \/ \E dt \in 0..1 : ResizeLoop(dt)

SpecClasses == InitEither /\ [][NextClasses]_vars

\* a manager whose size classes may hold one item more, with either strategy
StrategyConfig(poolStrategy) ==
    [DEFAULT_CONFIG EXCEPT !.maxPoolSize = MaxPoolSize + 1, !.poolStrategy = poolStrategy]

InitStrategy ==
    \/ createBufferManager(StrategyConfig("lru"))
    \/ createBufferManager(StrategyConfig("fifo"))

\* callers of such a manager acquire one-byte raw buffers, release each once
\* and drop them, while time passes
NextStrategy ==
    \/ Acquire("raw", 1, 1)
    \/ \E b \in Handles : InUse(b) /\ Release(b)
    \/ \E b \in Handles : Forget(b)
    \/ Tick

SpecStrategy == InitStrategy /\ [][NextStrategy]_vars

\* createBufferManager(userConfig) taken step by step: the state before the
\* first call of createSizeClasses, with size = finalConfig.initialBufferSize
BeginCreate(userConfig) ==
    /\ config = userConfig
    /\ pool = [kind \in Kinds |-> [sizeClasses |-> <<>>, overflow |-> <<>>]]
    /\ active = {}
    /\ buffers = [h \in Handles |-> NoBuffer]
    /\ heap = [id \in Ids |-> NoData]
    /\ now = 0
    /\ cleanupIntervalId = "undefined"
    /\ timerDue = userConfig.cleanupInterval
    /\ disposed = FALSE
    /\ staleWrite = FALSE
    /\ doubleRelease = FALSE
    /\ lastOp = [Outcome("createSizeClasses", 0, "running")
                    EXCEPT !.args = <<"raw", userConfig.initialBufferSize>>]

\* createBufferManager is inside a call of createSizeClasses
Constructing == lastOp.op = "createSizeClasses"

\* one pass of while (size <= finalConfig.maxBufferSize): a class is pushed
\* and size is doubled; the list grows as far as MaxClasses
CreateSizeClassesPass ==
    /\ Constructing
    /\ LET kind == lastOp.args[1]
           size == lastOp.args[2]
       IN  /\ size <= config.maxBufferSize
           /\ Len(pool[kind].sizeClasses) < MaxClasses
           /\ pool' = [pool EXCEPT ![kind].sizeClasses =
                                      Append(@, [size |-> size, buffers |-> <<>>])]
           /\ lastOp' = [lastOp EXCEPT !.args = <<kind, size * 2>>]
    /\ UNCHANGED <<config, active, buffers, heap, now, cleanupIntervalId, timerDue,
                   disposed, staleWrite, doubleRelease>>

\* the loop condition is false: createSizeClasses returns its list; after the
\* list of the raw pool that of the cell pool is built, and after that one the
\* manager is made, the timer is started and createBufferManager returns
CreateSizeClassesReturn ==
    /\ Constructing
    /\ lastOp.args[2] > config.maxBufferSize
    /\ IF lastOp.args[1] = "raw"
       THEN /\ lastOp' = [lastOp EXCEPT !.args = <<"cell", config.initialBufferSize>>]
            /\ UNCHANGED cleanupIntervalId
       ELSE /\ lastOp' = Outcome("create", 0, "ok")
            /\ cleanupIntervalId' = "set"
    /\ UNCHANGED <<config, pool, active, buffers, heap, now, timerDue,
                   disposed, staleWrite, doubleRelease>>

\* the configurations managers are created with: initialBufferSize from below
\* zero to above maxBufferSize
CreateConfigs ==
    {[DEFAULT_CONFIG EXCEPT !.initialBufferSize = i, !.maxBufferSize = m] :
        i \in (-1)..(MaxBufferSize + 1), m \in 1..MaxBufferSize}

InitCreate == \E userConfig \in CreateConfigs : BeginCreate(userConfig)

\* a manager is created; once createBufferManager has returned, callers
\* acquire one-byte raw buffers, release each once and drop them
NextCreate ==
    \/ CreateSizeClassesPass
    \/ CreateSizeClassesReturn
    \/ ~Constructing /\ Acquire("raw", 1, 1)
    \/ ~Constructing /\ \E b \in Handles : InUse(b) /\ Release(b)
    \/ ~Constructing /\ \E b \in Handles : Forget(b)

\* the construction is synchronous code: it runs on as long as it can
SpecCreate ==
    InitCreate /\ [][NextCreate]_vars
        /\ WF_vars(CreateSizeClassesPass) /\ WF_vars(CreateSizeClassesReturn)

\* callers keep the one-byte raw buffers they have released: they release
\* them again and write to them, while time passes, cleanup() is called and
\* the timer runs
NextRetained ==
    \/ Acquire("raw", 1, 1)
    \/ \E b \in Handles : Release(b)
    \/ \E b \in Handles, byte \in Bytes :
          Write(b, 0, 0, [kind |-> "bytes", cell |-> BlankCell, bytes |-> <<byte>>])
    \/ Cleanup
    \/ TimerFire
    \/ Tick

SpecRetained == Init /\ [][NextRetained]_vars

(***************************************************************************)
(* Capacity of the pool.                                                   *)
(***************************************************************************)
PoolTotal(kind) == SumLen(pool[kind].sizeClasses) + Len(pool[kind].overflow)

\* C1: for each buffer kind, the payloads held in the size classes and in the
\* overflow list together never number more than maxPoolSize
C1_TotalWithinMaxPoolSize ==
    \A kind \in Kinds : PoolTotal(kind) <= config.maxPoolSize

(***************************************************************************)
(* What acquireBuffer returns.                                             *)
(***************************************************************************)
Returned == lastOp.op = "acquire" /\ lastOp.result = "ok"
ReturnedBuffer == buffers[lastOp.buf]
ReturnedBytes == heap[ReturnedBuffer.data].bytes
ReturnedGrid == heap[ReturnedBuffer.data].grid
RequestedType == lastOp.args[1]
RequestedWidth == lastOp.args[2]
RequestedHeight == lastOp.args[3]

AllZero(bytes) == \A i \in 1..Len(bytes) : bytes[i] = 0
AllBlank(grid) == \A r \in 1..Len(grid) : \A c \in 1..Len(grid[r]) : grid[r][c] = BlankCell

\* C2: as long as no caller has written to a buffer after releasing it, every
\* buffer acquireBuffer returns holds only zero bytes or blank cells
C2_AcquiredIsCleared ==
    (Returned /\ ~staleWrite) => (AllZero(ReturnedBytes) /\ AllBlank(ReturnedGrid))

CheckedOut == {h \in Handles : buffers[h] # NoBuffer /\ buffers[h].released = 0}

NoSharedPayload ==
    /\ \A a \in CheckedOut : \A b \in CheckedOut : a # b => buffers[a].data # buffers[b].data
    /\ \A a \in CheckedOut : buffers[a].data \notin PooledIds(pool, "raw") \cup PooledIds(pool, "cell")

\* C3: as long as no buffer has been released twice, no two checked-out buffers
\* share payload storage and no payload is both pooled and checked out
C3_NoSharedPayload == ~doubleRelease => NoSharedPayload

\* a caller holds a recycled payload: the buffer just returned wraps the
\* storage of a buffer released before, both buffers exactly once released or not at all
C3_Witness ==
    /\ ~doubleRelease
    /\ Returned
    /\ \E r \in Handles \ CheckedOut :
          buffers[r] # NoBuffer /\ buffers[r].data = ReturnedBuffer.data

\* C4: a raw buffer returned by acquireBuffer has the requested width and
\* height and a payload of at least getOptimalBufferSize(width * height) bytes,
\* freshly allocated or recycled
C4_RawPayloadAtLeastOptimal ==
    (Returned /\ RequestedType = "raw") =>
        /\ ReturnedBuffer.type = "raw"
        /\ ReturnedBuffer.width = RequestedWidth
        /\ ReturnedBuffer.height = RequestedHeight
        /\ Len(ReturnedBytes) >= getOptimalBufferSize(RequestedWidth * RequestedHeight)

\* a recycled payload longer than the optimal size of the request was returned
C4_Witness ==
    /\ Returned
    /\ RequestedType = "raw"
    /\ Len(ReturnedBytes) > getOptimalBufferSize(RequestedWidth * RequestedHeight)

\* C5: a cell buffer returned by acquireBuffer has exactly height rows of
\* exactly width cells each, also when its grid is recycled
C5_CellGridHasRequestedShape ==
    (Returned /\ RequestedType = "cell") =>
        /\ Len(ReturnedGrid) = RequestedHeight
        /\ \A r \in 1..Len(ReturnedGrid) : Len(ReturnedGrid[r]) = RequestedWidth

\* C6: the payload of a raw buffer returned by acquireBuffer has at least
\* width * height bytes, also when width * height exceeds maxBufferSize
C6_RawPayloadCoversArea ==
    (Returned /\ RequestedType = "raw") =>
        Len(ReturnedBytes) >= RequestedWidth * RequestedHeight

(***************************************************************************)
(* Cleanup, the timer and dispose.                                         *)
(***************************************************************************)
PooledItems(kind) ==
    {pool[kind].overflow[j] : j \in 1..Len(pool[kind].overflow)}
    \cup UNION {{pool[kind].sizeClasses[i].buffers[j] :
                    j \in 1..Len(pool[kind].sizeClasses[i].buffers)} :
                i \in 1..Len(pool[kind].sizeClasses)}

\* C7: immediately after cleanup() has run, no size class and no overflow list
\* holds an item last used cleanupInterval or longer ago
C7_CleanupRemovesExpired ==
    lastOp.op \in {"cleanup", "timer"} =>
        \A kind \in Kinds : \A item \in PooledItems(kind) : ~isExpired(item.lastUsed)

\* C8: the storage of a released payload that is not acquired again does not
\* stay in the pool past the first timer-driven cleanup that runs
\* cleanupInterval or longer after the release
C8_TimerRemovesReleasedPayload ==
    lastOp.op = "timer" => ExpiredIds("raw") \cup ExpiredIds("cell") = {}

\* C9: after dispose() every size class and the overflow list of both kinds and
\* the registry of active buffers are empty, after a second dispose() as well
C9_DisposeEmptiesPool ==
    lastOp.op = "dispose" =>
        /\ \A kind \in Kinds : PoolTotal(kind) = 0
        /\ active = {}

TimerRan == timerDue' # timerDue

\* C10: from creation until dispose() the interval timer is set and its next
\* run is due within cleanupInterval; each run of the timer is a due one, calls
\* cleanup() and sets the next run cleanupInterval later; once dispose() has
\* been called the timer is cleared and runs no more
C10_TimerUntilDispose ==
    /\ [](~disposed => (cleanupIntervalId = "set" /\ timerDue <= now + config.cleanupInterval))
    /\ [][TimerRan => (~disposed /\ now >= timerDue /\ lastOp'.op = "timer"
                        /\ timerDue' = now + config.cleanupInterval)]_vars
    /\ [](disposed => cleanupIntervalId = "undefined")

\* the timer has run, then dispose() was called, and the time of the run that
\* was due next has come
C10_Witness ==
    /\ disposed
    /\ timerDue > config.cleanupInterval
    /\ now >= timerDue

(***************************************************************************)
(* resizePool.                                                             *)
(***************************************************************************)
\* C11: resizePool(kind, newSize) with newSize <= maxPoolSize is inside its
\* loop only while the kind's size classes and overflow together hold more
\* than newSize items, so that it comes to an end, and it returns without an
\* error, the kind then holding at most newSize items
C11_ResizeEndsWithinNewSize ==
    (lastOp.op = "resizePool" /\ lastOp.args[2] <= config.maxPoolSize) =>
        /\ lastOp.result \in {"running", "ok"}
        /\ lastOp.result = "running" => PoolTotal(lastOp.args[1]) > lastOp.args[2]
        /\ lastOp.result = "ok" => PoolTotal(lastOp.args[1]) <= lastOp.args[2]

(***************************************************************************)
(* Where a release puts the payload and where an acquire takes it from.    *)
(***************************************************************************)
ClassLens(p, kind) ==
    [i \in 1..Len(p[kind].sizeClasses) |-> Len(p[kind].sizeClasses[i].buffers)]
OverflowLen(p, kind) == Len(p[kind].overflow)

\* the buffer passed to the releaseBuffer call that makes this step
ReleasedNow(b) ==
    /\ lastOp'.op = "release"
    /\ buffers[b] # NoBuffer
    /\ \/ buffers'[b] = NoBuffer
       \/ buffers'[b].released = buffers[b].released + 1

\* C12: releaseBuffer puts the payload, with the size width*height and the
\* time of the release, at the end of the size class for width*height if there
\* is one and the kind's size classes hold fewer than maxPoolSize items in
\* all; otherwise at the end of the overflow if that holds fewer than
\* maxPoolSize/2 items; otherwise nowhere.  No size class ever holds more than
\* maxPoolSize items.
C12_ReleaseDestination ==
    /\ [][\A b \in Handles : ReleasedNow(b) =>
            LET kind == buffers[b].type
                size == buffers[b].width * buffers[b].height
                classes == pool[kind].sizeClasses
                fits == {i \in 1..Len(classes) : classes[i].size >= size}
                stored == [size |-> size, lastUsed |-> now]
                Same(item) == [size |-> item.size, lastUsed |-> item.lastUsed]
            IN  IF fits # {} /\ SumLen(classes) < config.maxPoolSize
                THEN \E ci \in fits :
                        /\ \A i \in fits : ci <= i
                        /\ ClassLens(pool', kind) = [ClassLens(pool, kind) EXCEPT ![ci] = @ + 1]
                        /\ Same(Last(pool'[kind].sizeClasses[ci].buffers)) = stored
                        /\ OverflowLen(pool', kind) = OverflowLen(pool, kind)
                ELSE IF 2 * OverflowLen(pool, kind) < config.maxPoolSize
                THEN /\ ClassLens(pool', kind) = ClassLens(pool, kind)
                     /\ OverflowLen(pool', kind) = OverflowLen(pool, kind) + 1
                     /\ Same(Last(pool'[kind].overflow)) = stored
                ELSE /\ ClassLens(pool', kind) = ClassLens(pool, kind)
                     /\ OverflowLen(pool', kind) = OverflowLen(pool, kind)]_vars
    /\ [](\A kind \in Kinds : \A i \in 1..Len(pool[kind].sizeClasses) :
             ClassLens(pool, kind)[i] <= config.maxPoolSize)

\* a release made while the size classes hold maxPoolSize items has put its
\* payload into the overflow
C12_Witness ==
    /\ lastOp.op = "release"
    /\ \E kind \in Kinds :
          /\ SumLen(pool[kind].sizeClasses) = config.maxPoolSize
          /\ OverflowLen(pool, kind) > 0
          /\ Last(pool[kind].overflow).lastUsed = now

\* the acquireBuffer call that makes this step returned a raw buffer
AcquiredRawNow == lastOp'.op = "acquire" /\ lastOp'.result = "ok" /\ lastOp'.args[1] = "raw"

StorageCount(p, b) == Cardinality(Reachable(p, b))

\* C13: when the size class for width*height holds an item, an acquireBuffer
\* of a raw buffer allocates no storage, takes the last item out of that class
\* and returns a buffer whose payload is that item's storage, the very storage
\* of the released buffer that put it there; and a raw buffer released into a
\* size class leaves in it the storage it holds itself
C13_AcquireReusesClassItem ==
    /\ [][AcquiredRawNow =>
            LET size == lastOp'.args[2] * lastOp'.args[3]
                classes == pool["raw"].sizeClasses
                ci == findSizeClass(classes, size)
            IN  (ci # 0 /\ Len(classes[ci].buffers) > 0) =>
                    /\ StorageCount(pool', buffers') = StorageCount(pool, buffers)
                    /\ ClassLens(pool', "raw") = [ClassLens(pool, "raw") EXCEPT ![ci] = @ - 1]
                    /\ OverflowLen(pool', "raw") = OverflowLen(pool, "raw")
                    /\ \A r \in Handles :
                          (buffers[r] # NoBuffer
                             /\ buffers[r].data = Last(classes[ci].buffers).buffer)
                          => buffers'[r].data = buffers'[lastOp'.buf].data]_vars
    /\ [][\A b \in Handles :
            (ReleasedNow(b) /\ buffers[b].type = "raw" /\ buffers'[b] # NoBuffer
               /\ releaseDestination("raw", buffers[b].width * buffers[b].height).to = "class")
            => LET ci == releaseDestination("raw", buffers[b].width * buffers[b].height).index
               IN  Last(pool'["raw"].sizeClasses[ci].buffers).buffer = buffers'[b].data]_vars

\* a raw buffer was released into the empty pool and a buffer of the same size
\* acquired: the two buffers hold the same storage, which the pool no longer holds
C13_Witness ==
    /\ Returned
    /\ RequestedType = "raw"
    /\ \A kind \in Kinds : PoolTotal(kind) = 0
    /\ \E r \in Handles :
          /\ r # lastOp.buf
          /\ buffers[r] # NoBuffer
          /\ buffers[r].released = 1
          /\ buffers[r].width * buffers[r].height = RequestedWidth * RequestedHeight
          /\ buffers[r].data = ReturnedBuffer.data

\* the buffer passed to the releaseBuffer call that came last
LastReleased == buffers[lastOp.buf]

\* the last call was a releaseBuffer of a raw buffer whose payload it appended
\* to overflow, the size class of the buffer's size holding maxPoolSize items
ReleasedToOverflow ==
    /\ lastOp.op = "release"
    /\ LastReleased # NoBuffer
    /\ LastReleased.type = "raw"
    /\ LET size == LastReleased.width * LastReleased.height
           classes == pool["raw"].sizeClasses
           overflow == pool["raw"].overflow
           ci == findSizeClass(classes, size)
       IN  /\ ci # 0
           /\ Len(classes[ci].buffers) = config.maxPoolSize
           /\ \A i \in 1..Len(classes[ci].buffers) : classes[ci].buffers[i].size = size
           /\ Len(overflow) > 0
           /\ Last(overflow).buffer = LastReleased.data
           /\ Last(overflow).size = size

\* C14: once maxPoolSize raw buffers of one size are released and one more of
\* that size is released, its payload going to overflow, the acquireBuffer of
\* that size that comes next returns the payload of that last released buffer
C14_NextAcquireTakesOverflow ==
    [][(ReleasedToOverflow /\ AcquiredRawNow
          /\ lastOp'.args[2] * lastOp'.args[3] = LastReleased.width * LastReleased.height)
       => buffers'[lastOp.buf].data = buffers'[lastOp'.buf].data]_vars

\* the step is a writeToBuffer(buffers[b], x, y, data) that returns
Wrote(b, x, y, data) == Write(b, x, y, data) /\ lastOp'.result = "ok"

\* what readFromBuffer(buffer, x, y) returns equals the value v: the cell, or
\* the one-byte slice holding the first byte of the byte sequence
ReadsBack(result, value, v) ==
    /\ result = "ok"
    /\ value = IF isCellData(v) THEN <<v.cell>> ELSE <<v.bytes[1]>>

\* C15: after a writeToBuffer(buffer, x, y, v) that returns, with v a cell or
\* a byte sequence that is not empty, readFromBuffer(buffer, x, y) returns a
\* value equal to v, for a raw buffer the slice of the first byte of v
C15_WriteThenReadRoundTrip ==
    [][\A b \in Handles, x \in Coords, y \in Coords, v \in Values :
          (Wrote(b, x, y, v) /\ (isRawData(v) => Len(v.bytes) > 0))
          => ReadsBack(ReadResult(b, x, y)', ReadValue(b, x, y)', v)]_vars

\* the bytes of a raw payload, or the cells of a grid, apart from the one at
\* (x, y) of a buffer of the given width
OtherBytes(content, width, x, y) ==
    [i \in 1..Len(content.bytes) |-> IF i = y * width + x + 1 THEN 0 ELSE content.bytes[i]]
OtherCells(content, x, y) ==
    [j \in 1..Len(content.grid) |->
        [i \in 1..(IF j = y + 1 /\ Len(content.grid[j]) < x + 1
                   THEN x + 1 ELSE Len(content.grid[j])) |->
            IF (j = y + 1 /\ i = x + 1) \/ i > Len(content.grid[j])
            THEN HoleCell ELSE content.grid[j][i]]]

\* C16: a writeToBuffer at (x, y) that returns changes, in a raw buffer, no
\* byte but the one at offset y*width+x, whatever byte sequence is passed,
\* and in a cell buffer no cell but the one at (x, y); the storage of other
\* buffers stays as it is
C16_WriteChangesOnePlace ==
    [][\A b \in Handles, x \in Coords, y \in Coords, v \in Values :
          Wrote(b, x, y, v) =>
              LET buffer == buffers[b]
                  d == buffer.data
              IN  /\ \A id \in Ids \ {d} : heap'[id] = heap[id]
                  /\ buffer.type = "raw" =>
                        OtherBytes(heap'[d], buffer.width, x, y)
                            = OtherBytes(heap[d], buffer.width, x, y)
                  /\ buffer.type = "cell" =>
                        OtherCells(heap'[d], x, y) = OtherCells(heap[d], x, y)]_vars

\* (x, y) lies inside the width and the height of the buffer
InBounds(buffer, x, y) == 0 <= x /\ x < buffer.width /\ 0 <= y /\ y < buffer.height

\* C17: at coordinates outside the buffer writeToBuffer throws a
\* BufferValidationError and readFromBuffer returns null; at coordinates
\* inside a buffer that acquireBuffer returned readFromBuffer returns a
\* value, not null, and throws nothing
C17_ReadDegradesWriteRejects ==
    /\ [][\A b \in Handles, x \in Coords, y \in Coords, v \in Values :
            (Write(b, x, y, v) /\ ~InBounds(buffers[b], x, y))
            => lastOp'.result = "BufferValidationError"]_vars
    /\ [][\A b \in Handles, x \in Coords, y \in Coords :
            Read(b, x, y) =>
                lastOp'.result = IF InBounds(buffers[b], x, y) THEN "ok" ELSE "null"]_vars

\* the value is not of the shape the buffer holds: a byte sequence for a cell
\* buffer, a cell for a raw buffer
Mismatched(buffer, v) ==
    \/ buffer.type = "cell" /\ v.kind = "bytes"
    \/ buffer.type = "raw" /\ v.kind = "cell"

\* the messages of the errors writeToBuffer throws for a value of the wrong shape
MismatchMessages == {"Invalid cell data format", "Invalid raw data format"}

\* C18: a writeToBuffer at coordinates inside the buffer with a value whose
\* shape does not match the kind of the buffer throws a BufferError that is
\* not a BufferValidationError, and stores nothing: the storage and the
\* buffers are as before
C18_MismatchedValueRejected ==
    /\ [](\A b \in Handles, x \in Coords, y \in Coords, v \in Values :
            (buffers[b] # NoBuffer /\ InBounds(buffers[b], x, y) /\ Mismatched(buffers[b], v))
            => /\ WriteMessage(b, x, y, v) \in MismatchMessages
               /\ WriteResult(b, x, y, v) = "BufferError")
    /\ [][(lastOp'.op = "write" /\ lastOp'.message \in MismatchMessages)
            => /\ lastOp'.result = "BufferError"
               /\ heap' = heap
               /\ buffers' = buffers]_vars

\* a byte sequence was written inside a cell buffer and rejected
C18_Witness ==
    /\ lastOp.op = "write"
    /\ lastOp.result = "BufferError"
    /\ lastOp.message = "Invalid cell data format"
    /\ \E b \in Handles : InUse(b) /\ buffers[b].type = "cell"

\* the acquireBuffer call that makes this step was passed a width or a height
\* that is zero, negative or not an integer
AcquiredInvalidNow ==
    /\ lastOp'.op = "acquire"
    /\ \/ lastOp'.message = "Buffer dimensions must be integers"
       \/ lastOp'.args[2] <= 0
       \/ lastOp'.args[3] <= 0

\* C19: acquireBuffer of either kind with a width or a height that is zero,
\* negative or not an integer throws a BufferValidationError, not a BufferError
\* that wraps it; no storage is allocated, no buffer is handed out and nothing
\* leaves a size class or overflow
C19_InvalidDimensionsRejected ==
    [][AcquiredInvalidNow
         => /\ lastOp'.result = "BufferValidationError"
            /\ lastOp'.buf = 0
            /\ pool' = pool
            /\ heap' = heap
            /\ buffers' = buffers
            /\ active' = active]_vars

\* acquireBuffer was called with a dimension that is not positive while the
\* size class of the kind asked for held an item, which is still there
C19_Witness ==
    /\ lastOp.op = "acquire"
    /\ lastOp.result = "BufferValidationError"
    /\ lastOp.message = "Buffer dimensions must be positive"
    /\ (lastOp.args[2] <= 0 \/ lastOp.args[3] <= 0)
    /\ PoolTotal(lastOp.args[1]) > 0

\* the acquireBuffer or writeToBuffer call that makes this step threw an error
FailedNow == lastOp'.op \in {"acquire", "write"} /\ lastOp'.result # "ok"

AllItems(p, kind) ==
    ClassItemsOf(p[kind].sizeClasses) \o p[kind].overflow

\* C21: lastUsed is set to the time of the call by every call that succeeds:
\* the buffer acquireBuffer returns and the buffer after a writeToBuffer or a
\* readFromBuffer that succeeded have lastUsed equal to Date.now(), which is
\* not earlier than their lastUsed before; the item releaseBuffer adds to the
\* pool has lastUsed equal to the time of the release; a read outside the
\* buffer leaves lastUsed as it was
C21_LastUsedStamped ==
    /\ [][(lastOp'.op = "acquire" /\ lastOp'.result = "ok")
            => buffers'[lastOp'.buf].lastUsed = now]_vars
    /\ [][(lastOp'.op \in {"write", "read"} /\ lastOp'.result = "ok")
            => /\ buffers'[lastOp'.buf].lastUsed = now
               /\ buffers'[lastOp'.buf].lastUsed >= buffers[lastOp'.buf].lastUsed]_vars
    /\ [][(lastOp'.op = "read" /\ lastOp'.result = "null")
            => buffers'[lastOp'.buf].lastUsed = buffers[lastOp'.buf].lastUsed]_vars
    /\ [][\A b \in Handles :
            (ReleasedNow(b) /\ Len(AllItems(pool', buffers[b].type))
                                 > Len(AllItems(pool, buffers[b].type)))
            => LET dest == releaseDestination(buffers[b].type,
                                              buffers[b].width * buffers[b].height)
                   p == pool'[buffers[b].type]
               IN  IF dest.to = "class"
                   THEN Last(p.sizeClasses[dest.index].buffers).lastUsed = now
                   ELSE Last(p.overflow).lastUsed = now]_vars

\* after time has passed a raw buffer was written or read and carries the
\* time of that call
C21_Witness ==
    /\ lastOp.op \in {"write", "read"}
    /\ lastOp.result = "ok"
    /\ now > 0
    /\ buffers[lastOp.buf].type = "raw"
    /\ buffers[lastOp.buf].lastUsed = now

\* the last call released a buffer whose lastUsed was more than
\* cleanupInterval in the past, and its item is the only one in the pool of
\* its kind
ReleasedStale ==
    /\ lastOp.op = "release"
    /\ LastReleased # NoBuffer
    /\ now - LastReleased.lastUsed > config.cleanupInterval
    /\ Len(AllItems(pool, LastReleased.type)) = 1

\* C22: when a buffer is released whose lastUsed is more than cleanupInterval
\* in the past, the cleanup() that comes next leaves no item for it in the
\* pool of its kind: with that release the only one, the size classes and
\* overflow are empty after the cleanup
C22_CleanupAfterStaleRelease ==
    [][(ReleasedStale /\ lastOp'.op = "cleanup")
         => Len(AllItems(pool', LastReleased.type)) = 0]_vars

\* C23: a buffer acquireBuffer returned is an entry of the registry
\* manager.active from its return until it is released or the manager is
\* disposed, and the registry holds no buffer that has been released
C23_ActiveHoldsCheckedOut ==
    /\ \A b \in Handles : (InUse(b) /\ ~disposed) => b \in active
    /\ \A b \in active : buffers[b] # NoBuffer /\ buffers[b].released = 0

\* the step is a run of cleanup(), called by a caller or by the timer
CleanedUpNow == lastOp'.op \in {"cleanup", "timer"}

\* the storage holds nothing but zeros or blank cells
IsCleared(content) == AllZero(content.bytes) /\ AllBlank(content.grid)

\* C24: a buffer that was acquired and is not released, read or written is
\* reclaimed by the cleanup() that runs cleanupInterval or more after its last
\* use: its payload is zeroed or blanked, its lastUsed is set to 0 and it is
\* no entry of the registry any more; a buffer used more recently is left as
\* it is
C24_CleanupReclaimsIdleBuffer ==
    [][CleanedUpNow =>
         \A b \in Handles :
            InUse(b) =>
                IF now - buffers[b].lastUsed >= config.cleanupInterval
                THEN /\ buffers'[b].lastUsed = 0
                     /\ IsCleared(heap'[buffers'[b].data])
                     /\ b \notin active'
                ELSE /\ buffers'[b].lastUsed = buffers[b].lastUsed
                     /\ heap'[buffers'[b].data] = heap[buffers[b].data]]_vars

\* the releaseBuffer call that makes this step was passed a buffer whose
\* metadata.isPooled is false
ReleasedUnpooledNow ==
    /\ lastOp'.op = "release"
    /\ buffers[lastOp'.buf] # NoBuffer
    /\ ~buffers[lastOp'.buf].isPooled

\* C25: releaseBuffer of a buffer whose metadata.isPooled is false changes
\* nothing: the payload of the buffer is not cleared, the size classes and
\* overflow of both kinds and the registry are as before
C25_UnpooledReleaseIsNoOp ==
    [][ReleasedUnpooledNow
         => /\ heap' = heap
            /\ pool' = pool
            /\ active' = active
            /\ buffers' = buffers]_vars

\* a raw buffer that is not pooled and holds a byte a caller wrote was passed
\* to releaseBuffer, and holds the byte still
C25_Witness ==
    /\ lastOp.op = "release"
    /\ buffers[lastOp.buf] # NoBuffer
    /\ ~buffers[lastOp.buf].isPooled
    /\ buffers[lastOp.buf].type = "raw"
    /\ ~AllZero(heap[buffers[lastOp.buf].data].bytes)

\* the capacities of the raw size classes that are at least the request
Sufficient(requested) ==
    {pool.raw.sizeClasses[i].size : i \in 1..Len(pool.raw.sizeClasses)}
        \cap {c \in 1..config.maxBufferSize : c >= requested}

\* the step is an acquireBuffer that returned a raw buffer and took no item
\* from the pool
AcquiredFreshRawNow ==
    /\ AcquiredRawNow
    /\ Len(AllItems(pool', "raw")) = Len(AllItems(pool, "raw"))

\* C26: getOptimalBufferSize(requested) returns the capacity of the smallest
\* size class whose capacity is at least requested, or maxBufferSize when no
\* class is that large; the call changes nothing in the manager; and a fresh
\* raw buffer of width*height = requested gets a payload of that many bytes
C26_OptimalBufferSize ==
    /\ [][lastOp'.op = "getOptimalBufferSize" =>
            LET requested == lastOp'.args[1]
                returned == lastOp'.args[2]
            IN  /\ IF Sufficient(requested) = {}
                   THEN returned = config.maxBufferSize
                   ELSE /\ returned \in Sufficient(requested)
                        /\ \A c \in Sufficient(requested) : returned <= c
                /\ pool' = pool
                /\ active' = active
                /\ buffers' = buffers
                /\ heap' = heap
                /\ config' = config]_vars
    /\ [][AcquiredFreshRawNow =>
            Len(heap'[buffers'[lastOp'.buf].data].bytes)
                = getOptimalBufferSize(lastOp'.args[2] * lastOp'.args[3])]_vars

\* with an item in the pool, the manager was asked for a size above every
\* class and answered maxBufferSize
C26_Witness ==
    /\ lastOp.op = "getOptimalBufferSize"
    /\ lastOp.args[1] > config.maxBufferSize
    /\ lastOp.args[2] = config.maxBufferSize
    /\ PoolTotal("raw") > 0

\* the capacities of the size classes of a kind, in the order of the list
Capacities(kind) ==
    [i \in 1..Len(pool[kind].sizeClasses) |-> pool[kind].sizeClasses[i].size]

\* C27: for both kinds the capacities of the size classes are
\* initialBufferSize, twice that, four times that and so on up to the largest
\* such value that is at most maxBufferSize, each the double of the one
\* before it; acquire, release, cleanup, resizePool and dispose leave the
\* list as construction made it
C27_SizeClassesDoubling ==
    \A kind \in Kinds :
        LET caps == Capacities(kind)
        IN  /\ Len(caps) >= 1
            /\ caps[1] = config.initialBufferSize
            /\ \A i \in 2..Len(caps) : caps[i] = 2 * caps[i - 1]
            /\ caps[Len(caps)] <= config.maxBufferSize
            /\ 2 * caps[Len(caps)] > config.maxBufferSize

\* the manager with two size classes has been through a release, a cleanup, a
\* dispose and a resizePool
C27_Witness ==
    /\ Len(Capacities("raw")) = 2
    /\ lastOp.op = "resizePool"
    /\ disposed
    /\ now > 0
    /\ PoolTotal("raw") > 0

\* C28: for every required capacity r >= 1 that some size class can hold, the
\* class findSizeClass selects, whose capacity getOptimalBufferSize(r) returns,
\* is the smallest class of capacity >= r, and that capacity is at most 2*r
C28_SelectedClassWithinTwice ==
    [][lastOp'.op = "getOptimalBufferSize" =>
         LET r == lastOp'.args[1]
             selected == lastOp'.args[2]
         IN  Sufficient(r) # {} =>
                /\ selected \in Sufficient(r)
                /\ \A c \in Sufficient(r) : selected <= c
                /\ selected <= 2 * r]_vars

\* C29: a raw buffer acquireBuffer returns for a width*height that some size
\* class can hold has a payload of at most as many bytes as the capacity of
\* the smallest such class, whatever was acquired and released before
C29_RawPayloadWithinClass ==
    (Returned /\ RequestedType = "raw"
        /\ Sufficient(RequestedWidth * RequestedHeight) # {})
    => \A c \in Sufficient(RequestedWidth * RequestedHeight) : Len(ReturnedBytes) <= c

\* the recorded sizes of the items of a list, in its order
ItemSizes(items) == [i \in 1..Len(items) |-> items[i].size]

\* the sizes of a list that has lost the item at index i and no other
SizesWithout(items, i) ==
    [k \in 1..(Len(items) - 1) |-> IF k < i THEN items[k].size ELSE items[k + 1].size]

\* the step is an acquireBuffer that returned a buffer
AcquiredNow == lastOp'.op = "acquire" /\ lastOp'.result = "ok"

ItemTimes(items) == [i \in 1..Len(items) |-> items[i].lastUsed]

\* the times of a list that has lost the item at index i and no other
TimesWithout(items, i) ==
    [k \in 1..(Len(items) - 1) |->
        IF k < i THEN items[k].lastUsed ELSE items[k + 1].lastUsed]

\* C31: the item acquireBuffer takes from a size class that holds items
\* depends on config.poolStrategy: with 'lru' it is the item released most
\* recently, with 'fifo' the item that has been idle longest
C31_StrategyChoosesItem ==
    [][AcquiredRawNow =>
         LET classes == pool["raw"].sizeClasses
             ci == findSizeClass(classes, lastOp'.args[2] * lastOp'.args[3])
             items == classes[ci].buffers
             taken == {i \in 1..Len(items) :
                          ItemTimes(pool'["raw"].sizeClasses[ci].buffers)
                              = TimesWithout(items, i)}
         IN  (ci # 0 /\ Len(items) > 0) =>
                \E i \in taken :
                    \A j \in 1..Len(items) :
                        IF config.poolStrategy = "lru"
                        THEN items[i].lastUsed >= items[j].lastUsed
                        ELSE items[i].lastUsed <= items[j].lastUsed]_vars

\* the recorded size and lastUsed of the items of a list, in its order
ItemStamps(items) == [i \in 1..Len(items) |-> <<items[i].size, items[i].lastUsed>>]

\* the stamps of a list that has lost the item at index i and no other
StampsWithout(items, i) ==
    [k \in 1..(Len(items) - 1) |->
        IF k < i THEN <<items[k].size, items[k].lastUsed>>
        ELSE <<items[k + 1].size, items[k + 1].lastUsed>>]

\* C32: each eviction step of resizePool removes exactly one item of the
\* kind's pool, size classes and overflow taken together: an item whose
\* lastUsed is the minimum; every other item stays where it was
C32_EvictsOldestItem ==
    [][Resizing =>
         LET type == lastOp.args[1]
             items == AllItems(pool, type)
         IN  Len(items) > 0 =>
                /\ \E i \in 1..Len(items) :
                      /\ \A j \in 1..Len(items) : items[i].lastUsed <= items[j].lastUsed
                      /\ ItemStamps(AllItems(pool', type)) = StampsWithout(items, i)
                /\ Len(pool'[type].overflow) <= Len(pool[type].overflow)
                /\ \A c \in 1..Len(pool[type].sizeClasses) :
                      Len(pool'[type].sizeClasses[c].buffers)
                          <= Len(pool[type].sizeClasses[c].buffers)]_vars

\* what a list of items holds: recorded size, lastUsed and payload contents
ItemViews(items, h) ==
    [i \in 1..Len(items) |-> <<items[i].size, items[i].lastUsed, h[items[i].buffer]>>]

\* what a kind's pool holds, collection by collection
PoolView(p, h, kind) ==
    [sizeClasses |-> [c \in 1..Len(p[kind].sizeClasses) |->
                         ItemViews(p[kind].sizeClasses[c].buffers, h)],
     overflow |-> ItemViews(p[kind].overflow, h)]

\* a payload is a Uint8Array, or a grid of cells
IsBytePayload(content) == content.grid = <<>> /\ Len(content.bytes) > 0
IsCellPayload(content) == content.bytes = <<>> /\ Len(content.grid) > 0

OtherKind(kind) == IF kind = "raw" THEN "cell" ELSE "raw"

\* the kind the call of this step is about, for acquire, release and write
CalledKind ==
    IF lastOp'.op = "acquire" THEN lastOp'.args[1] ELSE buffers[lastOp'.buf].type

\* C33: every item of the raw pool holds a byte payload and every item of the
\* cell pool holds a cell grid; an acquire, a release or a write on one kind
\* leaves the size classes and the overflow of the other kind as they were
C33_KindsKeptApart ==
    /\ [](\A i \in 1..Len(AllItems(pool, "raw")) :
              IsBytePayload(heap[AllItems(pool, "raw")[i].buffer]))
    /\ [](\A i \in 1..Len(AllItems(pool, "cell")) :
              IsCellPayload(heap[AllItems(pool, "cell")[i].buffer]))
    /\ [][lastOp'.op \in {"acquire", "release", "write"} =>
             PoolView(pool', heap', OtherKind(CalledKind))
                 = PoolView(pool, heap, OtherKind(CalledKind))]_vars

\* a raw buffer is acquired, written or released while the cell pool holds an
\* item, and a cell buffer while the raw pool holds one
C33_Witness ==
    /\ lastOp.op \in {"acquire", "release", "write"}
    /\ lastOp.result = "ok"
    /\ Len(AllItems(pool, "raw")) > 0
    /\ Len(AllItems(pool, "cell")) > 0
    /\ Len(pool["cell"].overflow) > 0

\* the views of the items of a list that are idle for less than cleanupInterval
FreshViews(items, h) ==
    SelectSeq(ItemViews(items, h), LAMBDA view : now - view[2] < config.cleanupInterval)

\* C34: cleanup() removes only expired items: every pooled item idle for
\* less than cleanupInterval is afterwards in the collection it was in, with
\* the payload contents and the lastUsed it had, in the order it was in; an
\* item idle for exactly cleanupInterval is expired and leaves its size class
C34_CleanupKeepsFreshItems ==
    [][lastOp'.op \in {"cleanup", "timer"} =>
          \A kind \in Kinds :
             /\ FreshViews(pool'[kind].overflow, heap') = FreshViews(pool[kind].overflow, heap)
             /\ \A c \in 1..Len(pool[kind].sizeClasses) :
                   /\ FreshViews(pool'[kind].sizeClasses[c].buffers, heap')
                          = FreshViews(pool[kind].sizeClasses[c].buffers, heap)
                   /\ \A i \in 1..Len(pool'[kind].sizeClasses[c].buffers) :
                         now - pool'[kind].sizeClasses[c].buffers[i].lastUsed
                             < config.cleanupInterval]_vars

\* what a caller sees of the buffer it holds: metadata, dimensions and the
\* contents of its data
BufferView(bs, h, b) ==
    <<bs[b].type, bs[b].width, bs[b].height, bs[b].isPooled, bs[b].lastUsed, h[bs[b].data]>>

\* C35: while every buffer has been released at most once, a cleanup(), called
\* directly or by the timer between a caller's acquireBuffer and
\* releaseBuffer, changes neither the data nor the metadata of a checked-out
\* buffer that was acquired or written less than cleanupInterval ago
C35_CleanupSparesCheckedOut ==
    [][(lastOp'.op \in {"cleanup", "timer"} /\ ~doubleRelease) =>
          \A b \in Handles :
             (InUse(b) /\ now - buffers[b].lastUsed < config.cleanupInterval) =>
                 /\ buffers'[b] # NoBuffer
                 /\ BufferView(buffers', heap', b) = BufferView(buffers, heap, b)]_vars

\* a cleanup has run while a buffer written to just before was checked out
\* and the pool held an item
C35_Witness ==
    /\ lastOp.op \in {"cleanup", "timer"}
    /\ ~doubleRelease
    /\ PoolTotal("raw") > 0
    /\ \E b \in Handles :
          /\ InUse(b)
          /\ now - buffers[b].lastUsed < config.cleanupInterval
          /\ heap[buffers[b].data].bytes = <<1>>

\* the most items an overflow list takes: releaseBuffer pushes while
\* overflow.length < maxPoolSize / 2
OverflowLimit == (config.maxPoolSize + 1) \div 2

\* C36: in every state reached by acquiring, releasing and cleaning up, the
\* size classes of a kind hold at most maxPoolSize items together and its
\* overflow holds at most ceil(maxPoolSize / 2) items
C36_PoolWithinLimits ==
    \A kind \in Kinds :
       /\ SumLen(pool[kind].sizeClasses) <= config.maxPoolSize
       /\ Len(pool[kind].overflow) <= OverflowLimit

\* a cleanup has run on a raw pool that is at both limits
C36_Witness ==
    /\ lastOp.op = "cleanup"
    /\ SumLen(pool["raw"].sizeClasses) = config.maxPoolSize
    /\ Len(pool["raw"].overflow) = OverflowLimit
    /\ \E b \in Handles : InUse(b)

\* C37: releasing a buffer twice leaves the pool as one release does: the raw
\* pool never holds one payload in two items, and no two buffers checked out
\* at the same time wrap the same payload
C37_SecondReleaseAddsNothing ==
    /\ \A i \in 1..Len(AllItems(pool, "raw")) :
          \A j \in 1..Len(AllItems(pool, "raw")) :
             i # j => AllItems(pool, "raw")[i].buffer # AllItems(pool, "raw")[j].buffer
    /\ \A a \in CheckedOut :
          \A b \in CheckedOut :
             (a # b /\ buffers[a].type = "raw" /\ buffers[b].type = "raw")
                 => buffers[a].data # buffers[b].data

\* C38: once dispose() has returned the manager retains nothing: whatever is
\* acquired or released afterwards, every size class and every overflow list
\* is empty
C38_DisposedRetainsNothing ==
    disposed =>
        \A kind \in Kinds :
           /\ \A c \in 1..Len(pool[kind].sizeClasses) :
                 pool[kind].sizeClasses[c].buffers = <<>>
           /\ pool[kind].overflow = <<>>

\* C39: createBufferManager terminates for every integer initialBufferSize
\* and maxBufferSize, an initialBufferSize of zero or less and one above
\* maxBufferSize included: the construction of the size classes comes to an end
C39_CreateTerminates == <>(~Constructing)

====
